---- MODULE Spec2Model ----
(***************************************************************************)
(* async-gate: a Lever (watch::Sender<Gateway>) and cloneable Gates        *)
(* (watch::Receiver<Gateway>) over one tokio watch channel.                *)
(*                                                                         *)
(* The Lever's calls and every Gate's wait are modelled step by step at    *)
(* the atomic operations of the watch channel they are built on (the       *)
(* value lock, the version/closed word, the receiver count, the            *)
(* notify_waiters broadcast), so that the interleavings of a Lever thread  *)
(* with Gate tasks and Gate drops are all explored.                        *)
(***************************************************************************)
EXTENDS Integers, FiniteSets, Sequences, TLC

\* Bounds of the model.
MaxGates == 2       \* Gate handles that can exist over the run (ids 1..MaxGates)
MaxVersion == 2     \* state changes the Lever may perform

GateIds == 1..MaxGates

\* src/lib.rs:7-10  enum Gateway
Raised == "Raised"
Lowered == "Lowered"
Gateway == {Raised, Lowered}

\* src/lib.rs:13-22  impl Not for Gateway
not(g) == IF g = Raised THEN Lowered ELSE Raised

VARIABLES
    gateway,      \* the value in the watch channel's shared slot
    version,      \* the channel's change-version counter
    closed,       \* the channel's closed bit (set when the Sender is dropped)
    leverPc,      \* where the Lever's thread is
    leverRet,     \* [op, res]: the Lever's last returned call
    alive,        \* the Gate handles that exist (the receiver count is its size)
    seen,         \* per Gate: the version the Receiver has marked as seen
    pc,           \* per Gate: where its wait is
    target,       \* per Gate: the value its wait is for
    closedLocal,  \* per Gate: wait_for's local `closed`
    wakeup,       \* per Gate: its Notified future has been notified
    result,       \* per Gate: what its wait returned ("cancelled": abandoned)
    initial,      \* history: the state given to new()
    atGateDrop,   \* history: the state when the last Gate was dropped
    lastSet,      \* history: the value the last state-changing call set
    atLeverDrop,  \* history: the state when the Lever was dropped
    matched       \* history, per wait: a Lever call set the state to target since

cell == <<gateway, version, closed>>
leverVars == <<leverPc, leverRet>>
waitVars == <<seen, pc, target, closedLocal, wakeup, result>>
histVars == <<initial, atGateDrop, lastSet, atLeverDrop, matched>>
vars == <<gateway, version, closed, leverPc, leverRet, alive, seen, pc, target,
          closedLocal, wakeup, result, initial, atGateDrop, lastSet, atLeverDrop,
          matched>>

----------------------------------------------------------------------------
\* Construction

\* src/lib.rs:234-241  new(initial): one channel, one Lever, one Gate
new(init) == [gateway |-> init, version |-> 0, closed |-> FALSE, alive |-> {1}]

\* src/lib.rs:247-249
new_raised == new(Raised)

\* new_lowered written as a copy of new_raised.
new_lowered_copied == new(Raised)

\* src/lib.rs:255-257
new_lowered == new(Lowered)

Init ==
    \E ctor \in {"new", "new_raised", "new_lowered"}, s \in Gateway :
        LET c == CASE ctor = "new" -> new(s)
                   [] ctor = "new_raised" -> new_raised
                   [] OTHER -> new_lowered
        IN  /\ gateway = c.gateway
            /\ version = c.version
            /\ closed = c.closed
            /\ alive = c.alive
            /\ initial = IF ctor = "new" THEN s
                         ELSE IF ctor = "new_raised" THEN Raised ELSE Lowered
            /\ leverPc = "idle"
            /\ leverRet = [op |-> "none", res |-> "none"]
            /\ seen = [g \in GateIds |-> 0]
            /\ pc = [g \in GateIds |-> "idle"]
            /\ target = [g \in GateIds |-> "none"]
            /\ closedLocal = [g \in GateIds |-> FALSE]
            /\ wakeup = [g \in GateIds |-> FALSE]
            /\ result = [g \in GateIds |-> "none"]
            /\ atGateDrop = "none"
            /\ lastSet = initial
            /\ atLeverDrop = "none"
            /\ matched = [g \in GateIds |-> FALSE]

----------------------------------------------------------------------------
\* The Lever

\* gate_was_dropped following the Gate that new() returned instead of the
\* number of Gates left.
gate_was_dropped_original == 1 \notin alive

\* src/lib.rs:162-164  Lever::gate_was_dropped: sender.is_closed(), no receiver left
gate_was_dropped == alive = {}

\* lever_was_dropped reporting the drop only once the Gate has no unseen change
\* left (has_changed() answering Ok(true) before the error).
lever_was_dropped_unseenFirst(g) == closed /\ seen[g] = version

\* src/lib.rs:225-227  Gate::lever_was_dropped: receiver.has_changed().is_err(),
\* an error exactly when the channel's closed bit is set
lever_was_dropped(g) == closed

\* The Gates whose wait holds a Notified future that notify_waiters completes.
Listening == {g \in GateIds : pc[g] \in {"maybe_changed", "parked"}}

\* A notification that wakes one waiter only (notify_one).
notify_one ==
    [g \in GateIds |->
        IF Listening # {} /\ g = CHOOSE x \in Listening : \A y \in Listening : x <= y
        THEN TRUE ELSE wakeup[g]]

\* watch: notify_rx.notify_waiters(), the broadcast after a change or a close
notify_waiters == [g \in GateIds |-> IF g \in Listening THEN TRUE ELSE wakeup[g]]

\* raise()/lower() storing the value before looking for the Gate: the call
\* that returns GateDropped has written.
LeverCall_writeFirst(op) ==
    LET v == IF op = "raise" THEN Raised ELSE Lowered
    IN  /\ leverPc = "idle"
        /\ (gateway # v => version < MaxVersion)
        /\ IF gate_was_dropped
           THEN /\ leverRet' = [op |-> op, res |-> "GateDropped"]
                /\ gateway' = v
                /\ lastSet' = v
                /\ version' = IF gateway = v THEN version ELSE version + 1
                /\ UNCHANGED <<leverPc, closed>>
           ELSE /\ leverPc' = op
                /\ UNCHANGED <<leverRet, cell, lastSet>>
        /\ UNCHANGED <<alive, waitVars, initial, atGateDrop, atLeverDrop, matched>>

\* src/lib.rs:91-93, 114-116: the gate_was_dropped() test of raise()/lower()
LeverCall(op) ==
    /\ leverPc = "idle"
    /\ (gateway # (IF op = "raise" THEN Raised ELSE Lowered) => version < MaxVersion)
    /\ IF gate_was_dropped
       THEN /\ leverRet' = [op |-> op, res |-> "GateDropped"]
            /\ UNCHANGED leverPc
       ELSE /\ leverPc' = op
            /\ UNCHANGED leverRet
    /\ UNCHANGED <<cell, alive, waitVars, histVars>>

\* A write that always stores and notifies (send_modify instead of
\* send_if_modified): the version is bumped and the waiters woken on a no-op.
send_always(op, v) ==
    /\ leverPc = op
    /\ gateway' = v
    /\ version' = version + 1
    /\ leverPc' = "notify_" \o op
    /\ matched' = [g \in GateIds |->
                     matched[g] \/ (pc[g] \notin {"idle", "done"} /\ target[g] = v)]
    /\ lastSet' = v
    /\ UNCHANGED <<closed, leverRet, alive, waitVars, initial, atGateDrop,
                   atLeverDrop>>

\* src/lib.rs:94-102, 117-125: send_if_modified with the closure of raise()/lower()
send_if_modified(op, v) ==
    /\ leverPc = op
    /\ IF gateway = v
       THEN \* the closure returns false: no write, no version bump, no notify
            /\ leverPc' = "idle"
            /\ leverRet' = [op |-> op, res |-> "Ok"]
            /\ UNCHANGED <<cell, matched, lastSet>>
       ELSE /\ gateway' = v
            /\ lastSet' = v
            /\ version' = version + 1
            /\ leverPc' = "notify_" \o op
            /\ matched' = [g \in GateIds |->
                             matched[g] \/ (pc[g] \notin {"idle", "done"}
                                           /\ target[g] = v)]
            /\ UNCHANGED <<closed, leverRet>>
    /\ UNCHANGED <<alive, waitVars, initial, atGateDrop, atLeverDrop>>

\* send_if_modified's notify_waiters after a change, then Ok(()) (lib.rs:102, 125)
send_notify(op) ==
    /\ leverPc = "notify_" \o op
    /\ wakeup' = notify_waiters
    /\ leverPc' = "idle"
    /\ leverRet' = [op |-> op, res |-> "Ok"]
    /\ UNCHANGED <<cell, alive, seen, pc, target, closedLocal, result, histVars>>

\* src/lib.rs:90-104  Lever::raise
raise ==
    \/ LeverCall("raise")
    \/ send_if_modified("raise", Raised)
    \/ send_notify("raise")

\* src/lib.rs:113-127  Lever::lower
lower ==
    \/ LeverCall("lower")
    \/ send_if_modified("lower", Lowered)
    \/ send_notify("lower")

\* The result of Lever::is_raised / is_lowered asking for value v.
LeverQuery(v) ==
    IF gate_was_dropped
    THEN "BeforeGateDropped(" \o gateway \o ")"
    ELSE IF gateway = v THEN "Ok(true)" ELSE "Ok(false)"

\* src/lib.rs:133-142  Lever::is_raised
Lever_is_raised ==
    /\ leverPc = "idle"
    /\ leverRet' = [op |-> "is_raised", res |-> LeverQuery(Raised)]
    /\ UNCHANGED <<cell, leverPc, alive, waitVars, histVars>>

\* An is_lowered() written as a copy of is_raised() with the match on Raised
\* left in place.
Lever_is_lowered_copied ==
    /\ leverPc = "idle"
    /\ leverRet' = [op |-> "is_lowered", res |-> LeverQuery(Raised)]
    /\ UNCHANGED <<cell, leverPc, alive, waitVars, histVars>>

\* src/lib.rs:148-157  Lever::is_lowered
Lever_is_lowered ==
    /\ leverPc = "idle"
    /\ leverRet' = [op |-> "is_lowered", res |-> LeverQuery(Lowered)]
    /\ UNCHANGED <<cell, leverPc, alive, waitVars, histVars>>

\* drop(lever): the Sender's drop sets the closed bit ...
DropLever ==
    /\ leverPc = "idle"
    /\ closed' = TRUE
    /\ leverPc' = "drop"
    /\ atLeverDrop' = gateway
    /\ UNCHANGED <<gateway, version, leverRet, alive, waitVars, initial,
                   atGateDrop, lastSet, matched>>

\* A drop that sets the closed bit and wakes nobody.
DropLeverNotify_silent ==
    /\ leverPc = "drop"
    /\ leverPc' = "dropped"
    /\ UNCHANGED <<cell, leverRet, alive, waitVars, histVars>>

\* ... and then wakes every waiting receiver
DropLeverNotify ==
    /\ leverPc = "drop"
    /\ wakeup' = notify_waiters
    /\ leverPc' = "dropped"
    /\ UNCHANGED <<cell, leverRet, alive, seen, pc, target, closedLocal, result,
                   histVars>>

----------------------------------------------------------------------------
\* The Gates

\* A Gate read that stops answering once the Lever is gone (the Lever's own
\* dropped-side test copied to the Gate).
Gate_is_raised_whileLever(g) == ~closed /\ gateway = Raised

\* src/lib.rs:182-184  Gate::is_raised
Gate_is_raised(g) == gateway = Raised

\* src/lib.rs:188-190  Gate::is_lowered
Gate_is_lowered(g) == gateway = Lowered

\* src/lib.rs:174  #[derive(Clone)]: the clone copies the seen version
Clone(g, h) ==
    /\ g \in alive /\ pc[g] = "idle"
    /\ h \notin alive
    /\ h = CHOOSE x \in GateIds : x \notin alive
    /\ alive' = alive \cup {h}
    /\ seen' = [seen EXCEPT ![h] = seen[g]]
    /\ UNCHANGED <<cell, leverVars, pc, target, closedLocal, wakeup, result,
                   histVars>>

\* A drop of the last Gate that closes the channel for both sides.
DropGate_closes(g) ==
    /\ g \in alive /\ pc[g] = "idle"
    /\ alive' = alive \ {g}
    /\ closed' = (closed \/ alive = {g})
    /\ atGateDrop' = IF alive = {g} THEN gateway ELSE atGateDrop
    /\ seen' = [seen EXCEPT ![g] = 0]
    /\ result' = [result EXCEPT ![g] = "none"]
    /\ UNCHANGED <<gateway, version, leverVars, pc, target, closedLocal, wakeup,
                   initial, lastSet, atLeverDrop, matched>>

\* drop(gate): the receiver count goes down; a wait borrows its Gate mutably,
\* so a Gate with a wait in flight cannot be dropped
DropGate(g) ==
    /\ g \in alive /\ pc[g] = "idle"
    /\ alive' = alive \ {g}
    /\ atGateDrop' = IF alive = {g} THEN gateway ELSE atGateDrop
    /\ seen' = [seen EXCEPT ![g] = 0]
    /\ result' = [result EXCEPT ![g] = "none"]
    /\ UNCHANGED <<cell, leverVars, pc, target, closedLocal, wakeup, initial,
                   lastSet, atLeverDrop,
                   matched>>

\* watch::Receiver::wait_for, the top of its loop: under the value lock, mark
\* the version seen and test the predicate (skipped when the channel is known
\* closed and nothing changed); return Ok, return Err, or go and wait, which
\* starts by requesting a notification (a fresh Notified, not yet notified).
\* sat is the predicate's value on the slot; cl is wait_for's local `closed`.
WaitStep(g, sat, cl, err) ==
    LET has_changed == seen[g] # version
    IN  /\ seen' = [seen EXCEPT ![g] = version]
        /\ closedLocal' = [closedLocal EXCEPT ![g] = FALSE]
        /\ IF (~cl \/ has_changed) /\ sat
           THEN /\ pc' = [pc EXCEPT ![g] = "done"]
                /\ result' = [result EXCEPT ![g] = "Ok"]
           ELSE IF cl
           THEN /\ pc' = [pc EXCEPT ![g] = "done"]
                /\ result' = [result EXCEPT ![g] = err]
           ELSE /\ pc' = [pc EXCEPT ![g] = "maybe_changed"]
                /\ result' = [result EXCEPT ![g] = "none"]

\* src/lib.rs:203, 218: the error a wait for v maps the channel's RecvError to
WaitErr(v) ==
    IF v = Raised THEN "LeverDroppedWhileLowered" ELSE "LeverDroppedWhileRaised"

\* A wait whose predicate matches the other value (raised() testing for Lowered).
WaitCheck_otherValue(g, v, cl) == WaitStep(g, gateway # v, cl, WaitErr(v))

\* A wait that maps the channel's error to the other side's error type.
WaitCheck_otherError(g, v, cl) == WaitStep(g, gateway = v, cl, WaitErr(not(v)))

\* src/lib.rs:197-204, 212-219: wait_for with the predicate
\* matches!(*gateway, Raised / Lowered), and the mapping of its result
WaitCheck(g, v, cl) == WaitStep(g, gateway = v, cl, WaitErr(v))

\* A wait that gives up at once when the Lever is gone, before looking at the
\* value.
Begin_closedFirst(g, v) ==
    /\ g \in alive /\ pc[g] = "idle"
    /\ target' = [target EXCEPT ![g] = v]
    /\ IF closed
       THEN /\ pc' = [pc EXCEPT ![g] = "done"]
            /\ result' = [result EXCEPT ![g] = WaitErr(v)]
            /\ UNCHANGED <<seen, closedLocal>>
       ELSE WaitCheck(g, v, FALSE)
    /\ UNCHANGED <<cell, leverVars, alive, wakeup, histVars>>

\* A wait that first waits for a change and only then looks at the value
\* (changed() followed by a test, instead of wait_for).
Begin_changedFirst(g, v) ==
    /\ g \in alive /\ pc[g] = "idle"
    /\ target' = [target EXCEPT ![g] = v]
    /\ pc' = [pc EXCEPT ![g] = "maybe_changed"]
    /\ result' = [result EXCEPT ![g] = "none"]
    /\ UNCHANGED <<cell, leverVars, alive, seen, closedLocal, wakeup, histVars>>

\* src/lib.rs:196-200, 211-215: the call of a wait and the start of its first
\* poll (the future is inert until polled): wait_for's first test of the value
Begin(g, v) ==
    /\ g \in alive /\ pc[g] = "idle"
    /\ target' = [target EXCEPT ![g] = v]
    /\ WaitCheck(g, v, FALSE)
    /\ UNCHANGED <<cell, leverVars, alive, wakeup, histVars>>

\* src/lib.rs:196-205  Gate::raised
raised(g) == Begin(g, Raised)

\* src/lib.rs:211-220  Gate::lowered
lowered(g) == Begin(g, Lowered)

\* A woken wait that takes the wake-up for the change it waits for and
\* returns without testing the value again (changed() instead of wait_for).
Recheck_noRetest(g) ==
    /\ pc[g] = "check"
    /\ WaitStep(g, TRUE, closedLocal[g], WaitErr(target[g]))
    /\ UNCHANGED <<cell, leverVars, alive, target, wakeup, histVars>>

\* wait_for's loop coming round after changed_impl returned
Recheck(g) ==
    /\ pc[g] = "check"
    /\ WaitCheck(g, target[g], closedLocal[g])
    /\ UNCHANGED <<cell, leverVars, alive, target, wakeup, histVars>>

\* changed_impl, with the notification requested: look at the version and the
\* closed bit; with neither news, notified.await returns Pending and the task
\* parks until notify_waiters
maybe_changed(g) ==
    /\ pc[g] = "maybe_changed"
    /\ IF seen[g] # version
       THEN /\ seen' = [seen EXCEPT ![g] = version]
            /\ pc' = [pc EXCEPT ![g] = "check"]
            /\ wakeup' = [wakeup EXCEPT ![g] = FALSE]
            /\ UNCHANGED closedLocal
       ELSE IF closed
       THEN /\ closedLocal' = [closedLocal EXCEPT ![g] = TRUE]
            /\ pc' = [pc EXCEPT ![g] = "check"]
            /\ wakeup' = [wakeup EXCEPT ![g] = FALSE]
            /\ UNCHANGED seen
       ELSE /\ pc' = [pc EXCEPT ![g] = "parked"]
            /\ UNCHANGED <<seen, closedLocal, wakeup>>
    /\ UNCHANGED <<cell, leverVars, alive, target, result, histVars>>

\* The woken task is polled again: the Notified is ready, changed_impl loops
\* and requests the next notification
Wake(g) ==
    /\ pc[g] = "parked" /\ wakeup[g]
    /\ pc' = [pc EXCEPT ![g] = "maybe_changed"]
    /\ wakeup' = [wakeup EXCEPT ![g] = FALSE]
    /\ UNCHANGED <<cell, leverVars, alive, seen, target, closedLocal, result,
                   histVars>>

\* The caller takes the wait's result; the Gate is free again
Finish(g) ==
    /\ pc[g] = "done"
    /\ pc' = [pc EXCEPT ![g] = "idle"]
    /\ result' = [result EXCEPT ![g] = "none"]
    /\ target' = [target EXCEPT ![g] = "none"]
    /\ matched' = [matched EXCEPT ![g] = FALSE]
    /\ UNCHANGED <<cell, leverVars, alive, seen, closedLocal, wakeup, initial,
                   atGateDrop, lastSet, atLeverDrop>>

\* A cancellation that takes the pending notifications of the other waiters
\* with it.
Cancel_steals(g) ==
    /\ pc[g] = "parked"
    /\ pc' = [pc EXCEPT ![g] = "idle"]
    /\ wakeup' = [h \in GateIds |-> FALSE]
    /\ target' = [target EXCEPT ![g] = "none"]
    /\ matched' = [matched EXCEPT ![g] = FALSE]
    /\ result' = [result EXCEPT ![g] = "cancelled"]
    /\ UNCHANGED <<cell, leverVars, alive, seen, closedLocal, initial,
                   atGateDrop, lastSet, atLeverDrop>>

\* The pending future is dropped by its owner (it can only be dropped between
\* polls, after one returned Pending).  result keeps the mark "cancelled"
\* until the Gate's next wait.
Cancel(g) ==
    /\ pc[g] = "parked"
    /\ pc' = [pc EXCEPT ![g] = "idle"]
    /\ wakeup' = [wakeup EXCEPT ![g] = FALSE]
    /\ target' = [target EXCEPT ![g] = "none"]
    /\ matched' = [matched EXCEPT ![g] = FALSE]
    /\ result' = [result EXCEPT ![g] = "cancelled"]
    /\ UNCHANGED <<cell, leverVars, alive, seen, closedLocal, initial,
                   atGateDrop, lastSet, atLeverDrop>>

----------------------------------------------------------------------------
Next ==
    \/ raise
    \/ lower
    \/ Lever_is_raised
    \/ Lever_is_lowered
    \/ DropLever
    \/ DropLeverNotify
    \/ \E g \in GateIds, h \in GateIds : Clone(g, h)
    \/ \E g \in GateIds : DropGate(g)
    \/ \E g \in GateIds : raised(g)
    \/ \E g \in GateIds : lowered(g)
    \/ \E g \in GateIds : Recheck(g)
    \/ \E g \in GateIds : maybe_changed(g)
    \/ \E g \in GateIds : Wake(g)
    \/ \E g \in GateIds : Finish(g)
    \/ \E g \in GateIds : Cancel(g)

Spec == Init /\ [][Next]_vars

\* Fair scheduling: a task that can continue its poll, or that has been woken,
\* is eventually run by its executor; a write of the Lever and the drop of the
\* Lever run on to their notification.  The calls themselves, the clones, the
\* drops and the cancellations are up to the program and carry no fairness.
Fairness ==
    /\ \A g \in GateIds :
          /\ WF_vars(Recheck(g))
          /\ WF_vars(maybe_changed(g))
          /\ WF_vars(Wake(g))
    /\ WF_vars(send_notify("raise"))
    /\ WF_vars(send_notify("lower"))
    /\ WF_vars(DropLeverNotify)

FairSpec == Init /\ [][Next]_vars /\ Fairness

----------------------------------------------------------------------------
\* Shorthands for the properties

Waiting(g) == pc[g] \in {"check", "maybe_changed", "parked"}
Resolves(g) == pc[g] # "done" /\ pc'[g] = "done"
LeverErrs == {"LeverDroppedWhileLowered", "LeverDroppedWhileRaised"}
NotifyPending == leverPc \in {"notify_raise", "notify_lower"}

----------------------------------------------------------------------------
\* C1 as the spec states it: a wait begun while the state differs from its
\* target resolves only with the state at the target, only after a Lever call
\* that set the state to the target, and it does resolve when such a call has
\* occurred: a waiter that tests the value again after the call returns Ok.
C1_ResolvesExactlyOnMatchingCall ==
    [][\A g \in GateIds :
         /\ (Resolves(g) /\ result'[g] = "Ok") => gateway = target'[g]
         /\ (Recheck(g) /\ result'[g] = "Ok") => matched[g]
         /\ (Recheck(g) /\ matched[g]) => result'[g] = "Ok"]_vars

\* C1, amended: a wait begun while the state differs from its target (it did
\* not return from its first test) returns only when the state is at the
\* target or the Lever is gone; it returns Ok only with the state at the
\* target and after a Lever call set the state to the target; and a waiter
\* that tests the value while the state is at the target returns Ok.  A
\* matching call that is undone before the waiter tests the value does not
\* resolve it.
C1_ResolvesOnlyAtTarget ==
    [][\A g \in GateIds :
         /\ Resolves(g) => (gateway = target'[g] \/ closed)
         /\ (Resolves(g) /\ result'[g] = "Ok") => gateway = target'[g]
         /\ (Recheck(g) /\ result'[g] = "Ok") => matched[g]
         /\ (Recheck(g) /\ gateway = target[g]) => result'[g] = "Ok"]_vars

\* A wait begun at the other value has been resolved Ok by a matching call.
C1_Witness ==
    \E g \in GateIds :
        pc[g] = "done" /\ result[g] = "Ok" /\ matched[g] /\ gateway = target[g]
        /\ ~closed

----------------------------------------------------------------------------
\* C2: raised() begun while the state is Raised, and lowered() begun while the
\* state is Lowered, return Ok from the first test of their first poll, without
\* requesting a notification or parking, whatever came before and whether or
\* not the Lever is alive.
C2_ResolvesInstantly ==
    [][\A g \in GateIds :
         /\ (raised(g) /\ Gate_is_raised(g)) => (pc'[g] = "done" /\ result'[g] = "Ok")
         /\ (lowered(g) /\ Gate_is_lowered(g)) => (pc'[g] = "done" /\ result'[g] = "Ok")
      ]_vars

\* A wait has returned Ok at once (no matching call was needed) after the
\* state had changed and the Lever had been dropped.
C2_Witness ==
    \E g \in GateIds :
        /\ pc[g] = "done" /\ result[g] = "Ok" /\ ~matched[g]
        /\ gateway = target[g] /\ version > 0 /\ closed

----------------------------------------------------------------------------
----------------------------------------------------------------------------
\* C4: a wait returns an error only if the Lever has been dropped and the frozen
\* state differs from its target (so never while the Lever is alive), and a
\* test of the value made after the drop with the frozen state at the target
\* returns Ok.
C4_ErrOnlyOnWrongSide ==
    /\ [](\A g \in GateIds :
            result[g] \in LeverErrs =>
                (lever_was_dropped(g) /\ gateway # target[g]))
    /\ [][\A g \in GateIds :
            /\ (raised(g) /\ closed /\ gateway = Raised) => result'[g] = "Ok"
            /\ (lowered(g) /\ closed /\ gateway = Lowered) => result'[g] = "Ok"
            /\ (Recheck(g) /\ closed /\ gateway = target[g]) => result'[g] = "Ok"
       ]_vars

\* After the drop, one clone's wait for the frozen value returned Ok and
\* another's wait for the other value returned the error.
C4_Witness ==
    /\ leverPc = "dropped"
    /\ \E g, h \in GateIds :
          /\ result[g] \in LeverErrs /\ target[g] # gateway
          /\ result[h] = "Ok" /\ target[h] = gateway /\ ~matched[h]

----------------------------------------------------------------------------
\* C5: once every Gate clone has been dropped, every raise() and lower() call
\* returns Err(GateDropped), every is_raised() and is_lowered() call returns
\* Err(BeforeGateDropped(s)) with s the state held when the last Gate was
\* dropped, and gate_was_dropped() is true before and after each call.
C5_AfterGatesDropped ==
    [][/\ \A op \in {"raise", "lower"} :
            (LeverCall(op) /\ gate_was_dropped) =>
               (leverRet' = [op |-> op, res |-> "GateDropped"] /\ gate_was_dropped')
       /\ (Lever_is_raised /\ gate_was_dropped) =>
               /\ leverRet'.res = "BeforeGateDropped(" \o atGateDrop \o ")"
               /\ gate_was_dropped'
       /\ (Lever_is_lowered /\ gate_was_dropped) =>
               /\ leverRet'.res = "BeforeGateDropped(" \o atGateDrop \o ")"
               /\ gate_was_dropped'
      ]_vars

----------------------------------------------------------------------------
\* C6: gate_was_dropped() and lever_was_dropped() are false at construction,
\* become true at the very step that releases the side (the drop of the last
\* Gate clone, the drop of the Lever) and by no other step, and never go back
\* to false.
C6_DropFlags ==
    /\ ~gate_was_dropped /\ \A g \in GateIds : ~lever_was_dropped(g)
    /\ [][/\ gate_was_dropped => gate_was_dropped'
          /\ (~gate_was_dropped /\ gate_was_dropped') =>
                 \E g \in GateIds : DropGate(g) /\ alive = {g}
          /\ \A g \in GateIds :
                /\ lever_was_dropped(g) => lever_was_dropped(g)'
                /\ (~lever_was_dropped(g) /\ lever_was_dropped(g)') => DropLever
                /\ DropLever => lever_was_dropped(g)'
                /\ (DropGate(g) /\ alive = {g}) => gate_was_dropped'
                /\ (DropGate(g) /\ alive # {g}) => ~gate_was_dropped'
         ]_vars

\* Both sides have been released, after the state had changed and a call had
\* failed on the dropped Gate.
C6_Witness ==
    /\ gate_was_dropped /\ \A g \in GateIds : lever_was_dropped(g)
    /\ version > 0 /\ leverRet.res = "GateDropped"

----------------------------------------------------------------------------
\* C7: the pair returned by new(S), new_raised() (S = Raised) and new_lowered()
\* (S = Lowered) has one Gate and a Lever, neither side reported dropped, and
\* until the first change of state the Gate's and the Lever's queries report S.
C7_FreshPair ==
    /\ alive = {1} /\ ~gate_was_dropped /\ ~lever_was_dropped(1) /\ leverPc = "idle"
    /\ [](version = 0 =>
            /\ Gate_is_raised(1) = (initial = Raised)
            /\ Gate_is_lowered(1) = (initial = Lowered))
    /\ [][(version = 0 /\ ~gate_was_dropped) =>
            /\ Lever_is_raised =>
                 leverRet'.res = (IF initial = Raised THEN "Ok(true)" ELSE "Ok(false)")
            /\ Lever_is_lowered =>
                 leverRet'.res = (IF initial = Lowered THEN "Ok(true)" ELSE "Ok(false)")
         ]_vars

\* The Lever of a fresh Lowered pair has answered is_lowered() with Ok(true).
C7_Witness ==
    /\ version = 0 /\ alive = {1} /\ initial = Lowered /\ ~closed
    /\ \A g \in GateIds : pc[g] = "idle" /\ result[g] = "none"
    /\ leverRet = [op |-> "is_lowered", res |-> "Ok(true)"]

----------------------------------------------------------------------------
----------------------------------------------------------------------------
\* C9: raise() with the state already Raised and lower() with the state already
\* Lowered return Ok(()) when a Gate exists and change neither the state, the
\* version, nor any wait: no waiter is woken or resolved by a no-op call.
C9_NoOpCall ==
    [][\A op \in {"raise", "lower"} :
         LET v == IF op = "raise" THEN Raised ELSE Lowered
         IN  ((LeverCall(op) \/ send_if_modified(op, v)) /\ gateway = v) =>
                /\ UNCHANGED <<gateway, version, closed, alive, pc, wakeup,
                               result, seen>>
                /\ leverPc' \in {"idle", op}
                /\ (leverPc = op => leverRet' = [op |-> op, res |-> "Ok"])
      ]_vars

\* A raise() on a Raised gate has returned Ok with a waiter for Lowered still
\* parked and not woken, and the version untouched.
C9_Witness ==
    /\ leverRet = [op |-> "raise", res |-> "Ok"] /\ leverPc = "idle"
    /\ version = 0 /\ gateway = Raised
    /\ \E g \in GateIds : pc[g] = "parked" /\ ~wakeup[g] /\ target[g] = Lowered

----------------------------------------------------------------------------
\* C10: abandoning a pending wait changes neither the state, the version, the
\* closed flags nor anything of the other Gates' waits, and no other waiter is
\* left parked and unwoken with a change or the Lever's drop unseen.
C10_CancelLeavesOthers ==
    /\ [](\A h \in GateIds :
            (pc[h] = "parked" /\ ~wakeup[h]) =>
                /\ (seen[h] = version \/ NotifyPending)
                /\ (~closed \/ leverPc = "drop"))
    /\ [][\A g \in GateIds :
            Cancel(g) =>
                /\ UNCHANGED <<gateway, version, closed, alive>>
                /\ \A h \in GateIds \ {g} :
                      /\ pc'[h] = pc[h] /\ wakeup'[h] = wakeup[h]
                      /\ result'[h] = result[h] /\ target'[h] = target[h]
                      /\ seen'[h] = seen[h] /\ matched'[h] = matched[h]
         ]_vars

\* One clone's wait was abandoned and another clone's wait, parked, has been
\* woken by the change to its target.
C10_Witness ==
    \E g, h \in GateIds :
        /\ g # h
        /\ result[g] = "cancelled" /\ pc[g] = "idle"
        /\ pc[h] = "parked" /\ wakeup[h] /\ target[h] = gateway /\ matched[h]

----------------------------------------------------------------------------
\* C11: raised() returns Ok only at a step at which the shared state is Raised
\* and lowered() only at a step at which it is Lowered, in every interleaving
\* of the Lever's calls with the waits: a woken waiter never acts on a value
\* that is no longer current.
C11_NoStaleValue ==
    [][\A g \in GateIds :
         (Resolves(g) /\ result'[g] = "Ok") =>
            /\ target'[g] = Raised => (Gate_is_raised(g) /\ Gate_is_raised(g)')
            /\ target'[g] = Lowered => (Gate_is_lowered(g) /\ Gate_is_lowered(g)')
      ]_vars

\* A waiter that was woken has returned Ok after the state had changed twice
\* during its wait.
C11_Witness ==
    \E g \in GateIds :
        /\ pc[g] = "done" /\ result[g] = "Ok" /\ matched[g]
        /\ version = 2 /\ seen[g] = 2 /\ gateway = target[g] /\ initial = target[g]

----------------------------------------------------------------------------
\* C12: the state the Gate reads is the value set by the last state-changing
\* Lever call (the initial state if there was none); once the Lever is dropped
\* it is the value held at the drop, and the Gate's reads still answer with it.
C12_ReadsLastSet ==
    \A g \in GateIds :
        /\ Gate_is_raised(g) = (lastSet = Raised)
        /\ Gate_is_lowered(g) = (lastSet = Lowered)
        /\ closed => /\ Gate_is_raised(g) = (atLeverDrop = Raised)
                     /\ Gate_is_lowered(g) = (atLeverDrop = Lowered)

\* The Lever was dropped after two changes and a Gate still exists to read the
\* frozen state.
C12_Witness ==
    /\ leverPc = "dropped" /\ version = 2 /\ alive # {}
    /\ atLeverDrop = Raised /\ \A g \in alive : Gate_is_raised(g)

----------------------------------------------------------------------------
\* C13: gate_was_dropped() is true exactly when no Gate clone remains: the drop
\* of a clone while another exists leaves it false, and the Lever's calls made
\* while a clone exists succeed (raise()/lower() pass the test and return Ok,
\* is_raised()/is_lowered() return Ok(..)); all clones read the same state.
C13_LastCloneCounts ==
    /\ [](/\ gate_was_dropped <=> alive = {}
          /\ \A g, h \in alive :
                /\ Gate_is_raised(g) = Gate_is_raised(h)
                /\ Gate_is_lowered(g) = Gate_is_lowered(h))
    /\ [][/\ \A g \in GateIds :
                (DropGate(g) /\ alive # {g}) => ~gate_was_dropped'
          /\ alive # {} =>
                /\ \A op \in {"raise", "lower"} :
                      LeverCall(op) => (leverPc' = op /\ leverRet' = leverRet)
                /\ Lever_is_raised => leverRet'.res \in {"Ok(true)", "Ok(false)"}
                /\ Lever_is_lowered => leverRet'.res \in {"Ok(true)", "Ok(false)"}
          /\ \A op \in {"raise", "lower"} :
                (leverPc # "idle" /\ leverPc' = "idle" /\ (raise \/ lower)) =>
                    leverRet'.res = "Ok"
         ]_vars

\* The Gate that new() returned is gone, its clone remains, and the Lever's
\* is_lowered() has answered Ok after a change of state.
C13_Witness ==
    /\ alive = {2} /\ ~gate_was_dropped /\ version > 0
    /\ leverRet.op = "is_lowered" /\ leverRet.res \in {"Ok(true)", "Ok(false)"}

----------------------------------------------------------------------------
\* C14: an error result leaves the shared state as it was and the handle
\* usable: the raise()/lower() that returns GateDropped changes nothing of the
\* cell (so the Lever's queries answer as before) and leaves the Lever ready for
\* its next call; the wait that returns a LeverDropped error changes nothing of
\* the cell, its Gate still exists, reads the frozen state, is free for the
\* next wait once the result is taken, and a wait for the frozen value
\* returns Ok.
C14_ErrorsLeaveState ==
    /\ [](\A g \in GateIds :
            result[g] \in LeverErrs =>
                /\ g \in alive
                /\ Gate_is_raised(g) = (atLeverDrop = Raised)
                /\ Gate_is_lowered(g) = (atLeverDrop = Lowered))
    /\ [][/\ \A op \in {"raise", "lower"} :
                (LeverCall(op) /\ leverRet'.res = "GateDropped") =>
                    /\ UNCHANGED <<gateway, version, closed, alive>>
                    /\ leverPc' = "idle"
                    /\ LeverQuery(Raised)' = LeverQuery(Raised)
                    /\ LeverQuery(Lowered)' = LeverQuery(Lowered)
          /\ \A g \in GateIds :
                /\ (Resolves(g) /\ result'[g] \in LeverErrs) =>
                       UNCHANGED <<gateway, version, closed, alive>>
                /\ (Finish(g) /\ result[g] \in LeverErrs) =>
                       (g \in alive' /\ pc'[g] = "idle")
                /\ \A v \in Gateway :
                      (Begin(g, v) /\ closed /\ v = atLeverDrop) => result'[g] = "Ok"
         ]_vars

\* lower() on a Raised gate whose Gates are gone has returned GateDropped and
\* the state is still Raised.
C14_Witness ==
    /\ leverRet = [op |-> "lower", res |-> "GateDropped"]
    /\ gate_was_dropped /\ gateway = Raised /\ lastSet = Raised /\ leverPc = "idle"

----------------------------------------------------------------------------
----------------------------------------------------------------------------
\* C16: under fair scheduling, if the state eventually stays at V for ever
\* (Lever alive or dropped), every wait for V that is pending, on any clone,
\* eventually returns Ok, unless its caller abandons it first.
C16_LevelTriggered ==
    \A g \in GateIds : \A v \in Gateway :
        (<>[](gateway = v)) =>
            ((Waiting(g) /\ target[g] = v) ~> (result[g] \in {"Ok", "cancelled"}))

\* Both clones wait for the value at which the dropped Lever has left the
\* state: one is parked and woken, the other is about to test the value.
C16_Witness ==
    /\ leverPc = "dropped" /\ alive = {1, 2}
    /\ \E g, h \in GateIds :
          /\ pc[g] = "parked" /\ wakeup[g] /\ target[g] = gateway
          /\ pc[h] = "check" /\ target[h] = gateway

----------------------------------------------------------------------------
\* C17: the dropped-check and the write of raise()/lower() are atomic with
\* respect to Gate drops: the state never changes once every Gate clone has
\* been dropped, and the write of a raise()/lower() call (whose return is then
\* Ok(())) is performed only while a Gate clone still exists.
C17_CheckAndWriteAtomic ==
    [][/\ gate_was_dropped => gateway' = gateway
       /\ \A op \in {"raise", "lower"} : \A v \in Gateway :
             send_if_modified(op, v) => ~gate_was_dropped
      ]_vars

----------------------------------------------------------------------------
\* C18: in every reachable state Gate::is_raised() = not Gate::is_lowered() on
\* every clone; a Lever::is_raised() / is_lowered() call made while a Gate
\* clone exists returns Ok of what Gate::is_raised() / is_lowered() reads on
\* every clone, before and after the call; a call made once none exists
\* returns BeforeGateDropped carrying the state of the shared cell.
C18_HandlesAgree ==
    /\ [](\A g \in GateIds : Gate_is_raised(g) = ~Gate_is_lowered(g))
    /\ [][/\ (Lever_is_raised /\ ~gate_was_dropped) =>
                \A g \in alive :
                    /\ leverRet'.res = (IF Gate_is_raised(g) THEN "Ok(true)" ELSE "Ok(false)")
                    /\ Gate_is_raised(g)' = Gate_is_raised(g)
          /\ (Lever_is_lowered /\ ~gate_was_dropped) =>
                \A g \in alive :
                    /\ leverRet'.res = (IF Gate_is_lowered(g) THEN "Ok(true)" ELSE "Ok(false)")
                    /\ Gate_is_lowered(g)' = Gate_is_lowered(g)
          /\ ((Lever_is_raised \/ Lever_is_lowered) /\ gate_was_dropped) =>
                /\ leverRet'.res = "BeforeGateDropped(" \o gateway \o ")"
                /\ gateway' = gateway
         ]_vars

\* After a change of state, is_lowered() has answered Ok(true) while two Gate
\* clones exist and both read Lowered.
C18_Witness ==
    /\ leverRet = [op |-> "is_lowered", res |-> "Ok(true)"]
    /\ alive = {1, 2} /\ version > 0 /\ leverPc = "idle"
    /\ \A g \in alive : Gate_is_lowered(g) /\ ~Gate_is_raised(g)

----------------------------------------------------------------------------
\* C19: dropping a Gate clone, the last one included, changes neither the
\* state nor lever_was_dropped(); dropping the Lever changes neither the state
\* nor gate_was_dropped(); every step of raise(), lower(), the Lever's queries
\* and the waits changes neither lever_was_dropped() nor gate_was_dropped().
C19_FlagsIndependent ==
    [][/\ (\E g \in GateIds : DropGate(g)) =>
             /\ gateway' = gateway
             /\ \A h \in GateIds : lever_was_dropped(h)' = lever_was_dropped(h)
       /\ (DropLever \/ DropLeverNotify) =>
             /\ gateway' = gateway
             /\ gate_was_dropped' = gate_was_dropped
       /\ (\/ raise \/ lower \/ Lever_is_raised \/ Lever_is_lowered
           \/ \E g \in GateIds :
                 \/ raised(g) \/ lowered(g) \/ Recheck(g) \/ maybe_changed(g)
                 \/ Wake(g) \/ Finish(g) \/ Cancel(g)) =>
             /\ \A h \in GateIds : lever_was_dropped(h)' = lever_was_dropped(h)
             /\ gate_was_dropped' = gate_was_dropped
      ]_vars

\* The last Gate clone has been dropped after a change of state: the Lever
\* sees gate_was_dropped(), the state is the one held at the drop and the
\* Lever's side is not closed.
C19_Witness ==
    /\ gate_was_dropped /\ \A h \in GateIds : ~lever_was_dropped(h)
    /\ version > 0 /\ atGateDrop = gateway /\ leverPc = "idle"

====
